---- MODULE Spec2Model ----
(***************************************************************************)
(* Model of src/src/movement.rs: the kinematic character controller        *)
(* `movement` (one FixedUpdate tick for one Character) and the pure        *)
(* functions `accelerate`, `apply_friction` and the `is_walkable` closure. *)
(*                                                                         *)
(* Numbers.  f32 values are modelled as exact rationals on fixed grids:    *)
(*   - a velocity component is an integer count of 1/VelScale units/s;     *)
(*   - a time step is an integer count of 1/DeltaDen seconds;              *)
(*   - a translation component is an integer count of                      *)
(*     1/(VelScale*DeltaDen) units, so velocity * delta is exact;          *)
(*   - a Dir3 (unit vector) is an integer vector of length DirScale;       *)
(*   - a Vec3 that only carries a direction (move input, contact normal)   *)
(*     is a plain integer vector of any length.                            *)
(* The pure functions return exact rationals [n |-> vector, d |-> denom];  *)
(* the controller rounds toward zero (ToGrid) when it stores one in the    *)
(* Character component.  Angles are kept as the pair (dot, |a|^2 |b|^2),   *)
(* from which acos(dot / sqrt(|a|^2 |b|^2)) is determined, and compared    *)
(* exactly.                                                                *)
(***************************************************************************)
EXTENDS Integers, Sequences, FiniteSets, TLC

VARIABLES velocity, floor, up, translation, ticks, tr, inp, out

vars == <<velocity, floor, up, translation, ticks, tr, inp, out>>

-----------------------------------------------------------------------------
(* Grids *)

VelScale == 400

DeltaDen == 64

DirScale == 5

\* Number of ticks explored from construction.
MaxTicks == 2

-----------------------------------------------------------------------------
(* Tuning constants, movement.rs:53-59 and the trace distance of line 185 *)

EXAMPLE_MOVEMENT_SPEED == 8

EXAMPLE_FLOOR_ACCELERATION == 100

EXAMPLE_AIR_ACCELERATION == 40

EXAMPLE_FRICTION == 60

EXAMPLE_JUMP_IMPULSE == 6

EXAMPLE_GRAVITY == 20

TRACE_DISTANCE == 10

-----------------------------------------------------------------------------
(* Scalars, vectors, options *)

Abs(a) == IF a < 0 THEN -a ELSE a

Min(a, b) == IF a <= b THEN a ELSE b

Sgn(a) == IF a > 0 THEN 1 ELSE IF a < 0 THEN -1 ELSE 0

\* Division rounding toward zero.
TruncDiv(a, b) == IF a >= 0 THEN a \div b ELSE -((-a) \div b)

\* Division rounding up, for a >= 0.
CeilDiv(a, b) == (a + b - 1) \div b

RECURSIVE IsqrtBetween(_, _, _)
IsqrtBetween(n, lo, hi) ==
    IF lo >= hi THEN lo
    ELSE LET mid == (lo + hi + 1) \div 2
         IN IF mid * mid <= n THEN IsqrtBetween(n, mid, hi)
            ELSE IsqrtBetween(n, lo, mid - 1)

\* f32::sqrt on the grid: the integer square root.
Isqrt(n) ==
    IF n < 256 THEN IsqrtBetween(n, 0, 15)
    ELSE IF n < 65536 THEN IsqrtBetween(n, 16, 255)
    ELSE IsqrtBetween(n, 256, 46340)

ZERO == <<0, 0, 0>>

Add(a, b) == <<a[1] + b[1], a[2] + b[2], a[3] + b[3]>>

Sub(a, b) == <<a[1] - b[1], a[2] - b[2], a[3] - b[3]>>

Scale(k, a) == <<k * a[1], k * a[2], k * a[3]>>

Dot(a, b) == a[1] * b[1] + a[2] * b[2] + a[3] * b[3]

LenSq(a) == Dot(a, a)

Cross(a, b) ==
    <<a[2] * b[3] - a[3] * b[2], a[3] * b[1] - a[1] * b[3], a[1] * b[2] - a[2] * b[1]>>

None == [some |-> FALSE, val |-> ZERO]

Some(v) == [some |-> TRUE, val |-> v]

\* An exact rational vector n / d.
Rat(n, d) == [n |-> n, d |-> d]

\* Storing a computed f32 vector in a component: rounding toward zero.
ToGrid(r) == <<TruncDiv(r.n[1], r.d), TruncDiv(r.n[2], r.d), TruncDiv(r.n[3], r.d)>>

\* Dir3::new(v): None for a zero-length vector, else v / |v| (length DirScale).
Dir3New(v) ==
    LET l == Isqrt(LenSq(v))
    IN IF l = 0 THEN None
       ELSE Some(<<TruncDiv(DirScale * v[1], l), TruncDiv(DirScale * v[2], l),
                   TruncDiv(DirScale * v[3], l)>>)

\* Dir3::Y, the `up` of Character::default().
DirY == <<0, DirScale, 0>>

-----------------------------------------------------------------------------
(* is_walkable, movement.rs:151-154 *)

\* Vec3::angle_between(a, b) = acos(a.b / sqrt(|a|^2 |b|^2)), kept as the
\* pair (a.b, |a|^2 |b|^2).  l = 0 is the NaN of a zero-length vector.
angle_between(a, b) == [c |-> Dot(a, b), l |-> LenSq(a) * LenSq(b)]

\* PI / 4 = acos(1 / sqrt(2)).
EXAMPLE_WALKABLE_ANGLE == [c |-> 1, l |-> 2]

\* theta < phi on f32 angles; false when either is NaN.  acos is decreasing,
\* so the angles compare as the cosines sgn(c) c^2 / l do, reversed.
AngleLess(theta, phi) ==
    /\ theta.l > 0
    /\ phi.l > 0
    /\ Sgn(theta.c) * theta.c * theta.c * phi.l > Sgn(phi.c) * phi.c * phi.c * theta.l

is_walkable_inclusive(u, hit) ==
    ~AngleLess(EXAMPLE_WALKABLE_ANGLE, angle_between(u, hit.normal1))
        /\ angle_between(u, hit.normal1).l > 0

is_walkable(u, hit) ==
    LET slope_angle == angle_between(u, hit.normal1)
    IN AngleLess(slope_angle, EXAMPLE_WALKABLE_ANGLE)

-----------------------------------------------------------------------------
(* accelerate, movement.rs:206-231 *)

\* impl TryInto<Dir3> for the Vec3 direction.
TryIntoDir3(direction) == Dir3New(direction)

\* velocity: grid vector; direction: Vec3; max_acceleration, target_speed:
\* whole units; delta: count of 1/DeltaDen s.  The result is exact.
accelerate_overshoot(v, direction, max_acceleration, target_speed, delta) ==
    LET dir == TryIntoDir3(direction)
        cs == Dot(v, dir.val)
        ts == DirScale * target_speed * VelScale
    IN IF ~dir.some THEN None
       ELSE IF cs >= ts THEN None
       ELSE Some(Rat(Add(Scale(DirScale * DirScale * DeltaDen, v),
                         Scale(DirScale * max_acceleration * VelScale * delta, dir.val)),
                     DirScale * DirScale * DeltaDen))

accelerate_uncapped_start(v, direction, max_acceleration, target_speed, delta) ==
    LET dir == TryIntoDir3(direction)
        accel_speed == Min(DeltaDen * (DirScale * target_speed * VelScale - Dot(v, dir.val)),
                           DirScale * max_acceleration * VelScale * delta)
    IN IF ~dir.some THEN None
       ELSE Some(Rat(Add(Scale(DirScale * DirScale * DeltaDen, v),
                         Scale(accel_speed, dir.val)),
                     DirScale * DirScale * DeltaDen))

accelerate(v, direction, max_acceleration, target_speed, delta) ==
    LET dir == TryIntoDir3(direction)
        \* current_speed, target_speed in 1/(DirScale*VelScale) units
        current_speed == Dot(v, dir.val)
        target == DirScale * target_speed * VelScale
        \* accel_speed in 1/(DirScale*DeltaDen*VelScale) units
        accel_speed == Min(DeltaDen * (target - current_speed),
                           DirScale * max_acceleration * VelScale * delta)
    IN IF ~dir.some THEN None
       ELSE IF current_speed >= target THEN None
       ELSE Some(Rat(Add(Scale(DirScale * DirScale * DeltaDen, v),
                         Scale(accel_speed, dir.val)),
                     DirScale * DirScale * DeltaDen))

-----------------------------------------------------------------------------
(* apply_friction, movement.rs:238-250 *)

ExpSteps == 16

\* f32::exp(x) for a rational x = n / d (d > 0): 1 / (1 + |x|) for x <= 0 and
\* 1 + |x| for x > 0, with |x| rounded up to a multiple of 1/ExpSteps.  It is
\* 1 exactly at x = 0, below 1 for x < 0 and above 1 for x > 0, as exp is.
exp(x) ==
    LET k == CeilDiv(ExpSteps * Abs(x.n), x.d)
    IN IF x.n <= 0 THEN [n |-> ExpSteps, d |-> ExpSteps + k]
       ELSE [n |-> ExpSteps + k, d |-> ExpSteps]

\* 1e-4 in squared grid units.
DeadZoneSq == (VelScale * VelScale) \div 10000

apply_friction_gain(v, friction, delta) ==
    LET speed_sq == LenSq(v)
        factor == exp([n |-> friction * VelScale * delta, d |-> DeltaDen * Isqrt(speed_sq)])
    IN IF speed_sq < DeadZoneSq THEN None
       ELSE Some(Rat(Scale(factor.n, v), factor.d))

apply_friction(v, friction, delta) ==
    LET speed_sq == LenSq(v)
        factor == exp([n |-> -(friction * VelScale * delta),
                       d |-> DeltaDen * Isqrt(speed_sq)])
    IN IF speed_sq < DeadZoneSq THEN None
       ELSE Some(Rat(Scale(factor.n, v), factor.d))

-----------------------------------------------------------------------------
(* movement, movement.rs:61-199: the steps of one tick *)

\* Lines 80-86: the jump.
JumpStep_keeps_floor(v, fl, u, fired) ==
    IF fired /\ fl.some
    THEN [velocity |-> Add(v, ToGrid(Rat(Scale(EXAMPLE_JUMP_IMPULSE * VelScale, u), DirScale))),
          floor |-> fl, applied |-> TRUE]
    ELSE [velocity |-> v, floor |-> fl, applied |-> FALSE]

JumpStep_in_air(v, fl, u, fired) ==
    IF fired
    THEN [velocity |-> Add(v, ToGrid(Rat(Scale(EXAMPLE_JUMP_IMPULSE * VelScale, u), DirScale))),
          floor |-> None, applied |-> TRUE]
    ELSE [velocity |-> v, floor |-> fl, applied |-> FALSE]

JumpStep(v, fl, u, fired) ==
    IF fired /\ fl.some
    THEN LET impulse == ToGrid(Rat(Scale(EXAMPLE_JUMP_IMPULSE * VelScale, u), DirScale))
         IN [velocity |-> Add(v, impulse), floor |-> None, applied |-> TRUE]
    ELSE [velocity |-> v, floor |-> fl, applied |-> FALSE]

\* Quat * Vec3, the camera rotation as its 3x3 matrix (rows).
Rotate(q, v) == <<Dot(q[1], v), Dot(q[2], v), Dot(q[3], v)>>

\* Lines 88-93: the direction from the 2D input and the camera rotation.
InputDirection(camera, input_vec) == Rotate(camera, <<input_vec[1], 0, -input_vec[2]>>)

\* Lines 104-105: velocity -= floor_normal * min(velocity . floor_normal, 0).
ClampIntoFloor_max(v, n) ==
    LET d == Dot(v, n)
    IN Rat(Sub(Scale(DirScale * DirScale, v), Scale(IF d > 0 THEN d ELSE 0, n)),
           DirScale * DirScale)

ClampIntoFloor(v, n) ==
    LET downward_vel == Min(Dot(v, n), 0)
    IN Rat(Sub(Scale(DirScale * DirScale, v), Scale(downward_vel, n)),
           DirScale * DirScale)

\* Vec3::reject_from_normalized(n): d - n (d . n), as a direction.
reject_from_normalized(d, n) ==
    Rat(Sub(Scale(DirScale * DirScale, d), Scale(Dot(d, n), n)), DirScale * DirScale)

\* Vec3::normalize_or_zero.
normalize_or_zero(r) == LET dir == Dir3New(r.n) IN IF dir.some THEN dir.val ELSE ZERO

\* Lines 95-123: the regime chosen by character.floor as the jump step left it.
Regime_gravity_always(v, fl, u, direction, delta) ==
    [grounded |-> fl.some, v_fric |-> v, clamp |-> Rat(v, 1),
     velocity |-> ToGrid(Rat(Sub(Scale(DirScale * DeltaDen, v),
                                 Scale(EXAMPLE_GRAVITY * VelScale * delta, u)),
                             DirScale * DeltaDen)),
     direction |-> direction,
     max_acceleration |-> EXAMPLE_AIR_ACCELERATION]

Regime(v, fl, u, direction, delta) ==
    IF fl.some
    THEN LET floor_normal == fl.val
             fr == apply_friction(v, EXAMPLE_FRICTION, delta)
             v_fric == IF fr.some THEN ToGrid(fr.val) ELSE v
             clamp == ClampIntoFloor(v_fric, floor_normal)
         IN [grounded |-> TRUE, v_fric |-> v_fric, clamp |-> clamp,
             velocity |-> ToGrid(clamp),
             direction |-> normalize_or_zero(reject_from_normalized(direction, floor_normal)),
             max_acceleration |-> EXAMPLE_FLOOR_ACCELERATION]
    ELSE LET gravity == Rat(Scale(-(EXAMPLE_GRAVITY * VelScale * delta), u),
                            DirScale * DeltaDen)
         IN [grounded |-> FALSE, v_fric |-> v, clamp |-> Rat(v, 1),
             velocity |-> Add(v, ToGrid(gravity)),
             direction |-> direction,
             max_acceleration |-> EXAMPLE_AIR_ACCELERATION]

\* Lines 126-134: `if let Some(accelerate_result) = accelerate(..)` replaces
\* the velocity only when accelerate returns a value.
StoreAccelerated(v, accelerate_result) ==
    IF accelerate_result.some THEN ToGrid(accelerate_result.val) ELSE v

AccelerationStep(v, direction, max_acceleration, delta) ==
    StoreAccelerated(v, accelerate(v, direction, max_acceleration,
                                   EXAMPLE_MOVEMENT_SPEED, delta))

\* Lines 167-171: the contact callback given to move_and_slide.
OnContact_any(fl, u, hit) ==
    LET dir == Dir3New(hit.normal1) IN IF dir.some THEN Some(dir.val) ELSE fl

OnContact_first(fl, u, hit) ==
    IF is_walkable(u, hit) /\ ~fl.some THEN Some(Dir3New(hit.normal1).val) ELSE fl

OnContact(fl, u, hit) ==
    IF is_walkable(u, hit) THEN Some(Dir3New(hit.normal1).val) ELSE fl

\* The callback applied to the contacts in the order move_and_slide reports them.
RECURSIVE SlideFloor(_, _, _)
SlideFloor(fl, u, hits) ==
    IF hits = <<>> THEN fl
    ELSE SlideFloor(OnContact(fl, u, Head(hits)), u, Tail(hits))

\* move_and_slide (crate::move_and_slide, not in src/): the velocity loses its
\* component into each contact in turn.
SlideOnce(v, hit) ==
    LET n == hit.normal1
        into == Dot(v, n)
    IN IF LenSq(n) = 0 \/ into >= 0 THEN v
       ELSE ToGrid(Rat(Sub(Scale(LenSq(n), v), Scale(into, n)), LenSq(n)))

RECURSIVE SlideVelocity(_, _)
SlideVelocity(v, hits) ==
    IF hits = <<>> THEN v ELSE SlideVelocity(SlideOnce(v, Head(hits)), Tail(hits))

\* Lines 138-144: the query filter excludes the character's entity and the
\* sensor entities and carries the character's collision filters as its mask.
BuildFilter_no_sensors(entity, filters, sensors) ==
    [excluded_entities |-> {entity}, mask |-> filters]

BuildFilter(entity, filters, sensors) ==
    [excluded_entities |-> {entity} \cup sensors, mask |-> filters]

\* Entities of the scene: the character, solid ground, a sensor volume, and a
\* solid collider on a layer outside the character's filters.
CHARACTER == "character"

GROUND == "ground"

TRIGGER == "trigger"

BACKDROP == "backdrop"

\* The entities carrying the Sensor marker (the `sensors` query, line 74).
Sensors == {TRIGGER}

\* The character's CollisionLayers.filters (line 69), as a set of layers.
CharacterFilters == {"default"}

\* The layers an entity's collider is a member of.
Memberships(e) == IF e = BACKDROP THEN {"backdrop"} ELSE {"default"}

\* SpatialQueryFilter (avian3d): a collider is tested when its entity is not
\* excluded and it is a member of a layer of the mask.
Passes(filter, hit) ==
    /\ hit.entity \notin filter.excluded_entities
    /\ Memberships(hit.entity) \cap filter.mask # {}

\* The contacts of the scene a filtered query reports, in order.
ReportedContacts(hits, filter) == SelectSeq(hits, LAMBDA h : Passes(filter, h))

\* move_and_slide for one outcome of the scene: the contacts on the path and
\* whether it returns a result.  The contacts that pass the filter are met at
\* the start of the step, and the rest of the step is travelled with the slid
\* velocity.
move_and_slide(pos, v, delta, filter, outcome) ==
    LET new_velocity == SlideVelocity(v, ReportedContacts(outcome.hits, filter))
    IN IF outcome.ok
       THEN [some |-> TRUE, new_translation |-> Add(pos, Scale(delta, new_velocity)),
             new_velocity |-> new_velocity]
       ELSE [some |-> FALSE, new_translation |-> pos, new_velocity |-> v]

\* Lines 174 and 197: what the tick writes to the Character component.
CommitCharacter_up_to_floor(v, fl, u) ==
    [velocity |-> v, floor |-> fl, up |-> IF fl.some THEN fl.val ELSE u]

CommitCharacter(v, fl, u) == [velocity |-> v, floor |-> fl, up |-> u]

\* Line 179: the fallback probe runs when character.floor is Some and the
\* slide recorded no floor.
ProbeGuard_any_start(cfloor, fl) == ~fl.some

ProbeGuard_found(cfloor, fl) == cfloor.some /\ fl.some

ProbeGuard(cfloor, fl) == cfloor.some /\ ~fl.some

\* Lines 190-193: the snap and the floor of a walkable probe hit.
FallbackProbe_up(pos, u, fl, sweep) ==
    IF sweep.some /\ is_walkable(u, sweep.hit)
    THEN [translation |-> Add(pos, ToGrid(Rat(Scale(sweep.movement, u), DirScale))),
          floor |-> Some(Dir3New(sweep.hit.normal1).val)]
    ELSE [translation |-> pos, floor |-> fl]

FallbackProbe_snap_any(pos, u, fl, sweep) ==
    IF sweep.some
    THEN [translation |-> Sub(pos, ToGrid(Rat(Scale(sweep.movement, u), DirScale))),
          floor |-> IF is_walkable(u, sweep.hit) THEN Some(Dir3New(sweep.hit.normal1).val)
                    ELSE fl]
    ELSE [translation |-> pos, floor |-> fl]

FallbackProbe(pos, u, fl, sweep) ==
    IF sweep.some /\ is_walkable(u, sweep.hit)
    THEN [translation |-> Sub(pos, ToGrid(Rat(Scale(sweep.movement, u), DirScale))),
          floor |-> Some(Dir3New(sweep.hit.normal1).val)]
    ELSE [translation |-> pos, floor |-> fl]

-----------------------------------------------------------------------------
(* The scene and the inputs of a tick *)

\* ShapeHitData: the normal on the hit shape and the entity hit.
HitOn(n, e) == [normal1 |-> n, entity |-> e]

Hit(n) == HitOn(n, GROUND)

\* A flat floor, a 36.9 degree slope, a slope of exactly 45 degrees, a ceiling.
FLAT == Hit(<<0, 1, 0>>)

SLOPE == Hit(<<3, 4, 0>>)

STEEP == Hit(<<1, 1, 0>>)

CEILING == Hit(<<0, -1, 0>>)

\* Flat surfaces of the character itself, of a sensor and of the backdrop.
OWN_FLAT == HitOn(<<0, 1, 0>>, CHARACTER)

TRIGGER_FLAT == HitOn(<<0, 1, 0>>, TRIGGER)

BACKDROP_FLAT == HitOn(<<0, 1, 0>>, BACKDROP)

\* The contacts on the path of the slide, before the filter.
SlideOutcomes ==
    { [hits |-> <<>>, ok |-> TRUE], [hits |-> <<>>, ok |-> FALSE],
      [hits |-> <<OWN_FLAT, FLAT>>, ok |-> TRUE],
      [hits |-> <<BACKDROP_FLAT, STEEP>>, ok |-> TRUE],
      [hits |-> <<FLAT, SLOPE>>, ok |-> TRUE], [hits |-> <<SLOPE, CEILING>>, ok |-> TRUE],
      [hits |-> <<TRIGGER_FLAT>>, ok |-> TRUE] }

NoHit == [some |-> FALSE, movement |-> 0, hit |-> Hit(ZERO)]

Sweep(movement, hit) == [some |-> TRUE, movement |-> movement, hit |-> hit]

\* One unit of length on the translation grid.
Unit == VelScale * DeltaDen

\* character_sweep (crate::move_and_slide, not in src/): no hit, or the first
\* hit within max_distance and the distance that can be travelled to it.
character_sweep(max_distance, filter) ==
    {NoHit} \cup
    { s \in {Sweep(0, FLAT), Sweep(10 * Unit, SLOPE), Sweep(Unit, STEEP), Sweep(11 * Unit, FLAT),
             Sweep(0, TRIGGER_FLAT), Sweep(0, OWN_FLAT), Sweep(Unit, BACKDROP_FLAT)} :
        s.movement <= max_distance * Unit /\ Passes(filter, s.hit) }

InputVecs == {<<0, 0>>, <<0, 1>>}

\* A quarter turn of yaw, and a camera pitched straight down.
YAW_LEFT == <<<<0, 0, 1>>, <<0, 1, 0>>, <<-1, 0, 0>>>>

PITCH_DOWN == <<<<1, 0, 0>>, <<0, 0, 1>>, <<0, -1, 0>>>>

Cameras == {YAW_LEFT, PITCH_DOWN}

\* time.delta_secs() of the fixed timestep, in 1/DeltaDen s.
FixedDelta == 1

-----------------------------------------------------------------------------
(* State *)

NoTick ==
    [fired |-> FALSE, direction |-> ZERO, delta |-> 0,
     floor0 |-> None, vel0 |-> ZERO, pos0 |-> ZERO,
     applied |-> FALSE, v_jump |-> ZERO, floor_j |-> None,
     regime |-> "none", v_fric |-> ZERO, clamp |-> Rat(ZERO, 1), v_reg |-> ZERO,
     dir_acc |-> ZERO, v_acc |-> ZERO,
     max_acceleration |-> 0,
     scene |-> <<>>, hits |-> <<>>, slide_ok |-> FALSE, slide_floor |-> None,
     pos_slide |-> ZERO, v_slide |-> ZERO,
     probed |-> FALSE, sweep |-> NoHit]

NoCall == [fn |-> "none"]

\* Character::default() at the origin.
Init ==
    /\ velocity = ZERO
    /\ floor = None
    /\ up = DirY
    /\ translation = ZERO
    /\ ticks = 0
    /\ tr = NoTick
    /\ inp = NoCall
    /\ out = NoCall

\* One run of the `movement` system for the character.
movement ==
    /\ ticks < MaxTicks
    /\ \E fired \in BOOLEAN, input_vec \in InputVecs, camera \in Cameras,
          outcome \in SlideOutcomes :
        LET delta == FixedDelta
            j == JumpStep(velocity, floor, up, fired)
            direction == InputDirection(camera, input_vec)
            reg == Regime(j.velocity, j.floor, up, direction, delta)
            v_acc == AccelerationStep(reg.velocity, reg.direction, reg.max_acceleration, delta)
            filter == BuildFilter(CHARACTER, CharacterFilters, Sensors)
            hits == ReportedContacts(outcome.hits, filter)
            slide_floor == SlideFloor(None, up, hits)
            mas == move_and_slide(translation, v_acc, delta, filter, outcome)
            pos_slide == IF mas.some THEN mas.new_translation ELSE translation
            v_slide == IF mas.some THEN mas.new_velocity ELSE v_acc
            probed == ProbeGuard(j.floor, slide_floor)
        IN \E sweep \in IF probed THEN character_sweep(TRACE_DISTANCE, filter) ELSE {NoHit} :
            LET fb == IF probed THEN FallbackProbe(pos_slide, up, slide_floor, sweep)
                      ELSE [translation |-> pos_slide, floor |-> slide_floor]
                character == CommitCharacter(v_slide, fb.floor, up)
            IN /\ velocity' = character.velocity
               /\ translation' = fb.translation
               /\ floor' = character.floor
               /\ up' = character.up
               /\ ticks' = ticks + 1
               /\ tr' = [fired |-> fired, direction |-> direction, delta |-> delta,
                         floor0 |-> floor, vel0 |-> velocity, pos0 |-> translation,
                         applied |-> j.applied, v_jump |-> j.velocity, floor_j |-> j.floor,
                         regime |-> IF reg.grounded THEN "grounded" ELSE "airborne",
                         v_fric |-> reg.v_fric, clamp |-> reg.clamp, v_reg |-> reg.velocity,
                         dir_acc |-> reg.direction, v_acc |-> v_acc,
                         max_acceleration |-> reg.max_acceleration,
                         scene |-> outcome.hits, hits |-> hits, slide_ok |-> outcome.ok,
                         slide_floor |-> slide_floor,
                         pos_slide |-> pos_slide, v_slide |-> v_slide,
                         probed |-> probed, sweep |-> sweep]
               /\ UNCHANGED <<inp, out>>

Next == movement

Spec == Init /\ [][Next]_vars

-----------------------------------------------------------------------------
(* The pure functions on their own: the inputs are drawn by Init *)

AccelVelocities ==
    { ZERO, <<3200, 0, 0>>, <<-3200, 0, 0>>, <<0, -125, 0>>, <<3000, 0, 0>>,
      <<4000, 0, 400>>, <<2999, 1, -7>>, <<0, 0, -3199>> }

\* Zero, unit and non-unit directions.
AccelDirections ==
    { ZERO, <<1, 0, 0>>, <<0, 0, -1>>, <<0, 0, -2>>, <<3, 4, 0>>, <<-4, 0, 3>>, <<0, -1, 0>> }

AccelInputs ==
    [fn : {"accelerate"}, velocity : AccelVelocities, direction : AccelDirections,
     max_acceleration : {0, EXAMPLE_AIR_ACCELERATION, EXAMPLE_FLOOR_ACCELERATION},
     target_speed : {0, EXAMPLE_MOVEMENT_SPEED}, delta : {0, 1, 2, DeltaDen}]

call_accelerate ==
    /\ inp.fn = "accelerate"
    /\ out = NoCall
    /\ LET r == accelerate(inp.velocity, inp.direction, inp.max_acceleration,
                           inp.target_speed, inp.delta)
       IN out' = [fn |-> "accelerate", some |-> r.some,
                  new_velocity |-> IF r.some THEN r.val ELSE Rat(ZERO, 1),
                  stored |-> StoreAccelerated(inp.velocity, r)]
    /\ UNCHANGED <<velocity, floor, up, translation, ticks, tr, inp>>

InitAccelerate ==
    /\ velocity = ZERO /\ floor = None /\ up = DirY /\ translation = ZERO
    /\ ticks = 0 /\ tr = NoTick
    /\ inp \in AccelInputs
    /\ out = NoCall

SpecAccelerate == InitAccelerate /\ [][call_accelerate]_vars

FrictionVelocities ==
    { ZERO, <<3, 0, 0>>, <<1, 2, 3>>, <<4, 0, 0>>, <<0, -125, 0>>, <<3200, 0, 0>>,
      <<-160, 120, 0>>, <<2000, -400, 1000>>, <<0, 0, -4000>> }

FrictionInputs ==
    [fn : {"apply_friction"}, velocity : FrictionVelocities,
     friction : {0, 1, EXAMPLE_FRICTION}, delta : {0, 1, 2}]

call_apply_friction ==
    /\ inp.fn = "apply_friction"
    /\ out = NoCall
    /\ LET r == apply_friction(inp.velocity, inp.friction, inp.delta)
       IN out' = [fn |-> "apply_friction", some |-> r.some,
                  new_velocity |-> IF r.some THEN r.val ELSE Rat(ZERO, 1)]
    /\ UNCHANGED <<velocity, floor, up, translation, ticks, tr, inp>>

InitFriction ==
    /\ velocity = ZERO /\ floor = None /\ up = DirY /\ translation = ZERO
    /\ ticks = 0 /\ tr = NoTick
    /\ inp \in FrictionInputs
    /\ out = NoCall

SpecFriction == InitFriction /\ [][call_apply_friction]_vars

\* Contact normals of every direction on a small lattice, and two slopes.
WalkNormals ==
    { <<x, y, z>> : x \in -2..2, y \in -2..2, z \in -2..2 }
        \cup { <<3, 4, 0>>, <<4, 3, 0>>, <<0, 4, -3>>, <<0, 3, 4>>, <<5, 5, 0>>, <<5, 6, 3>> }

WalkInputs == [fn : {"is_walkable"}, up : {DirY}, normal1 : WalkNormals]

call_is_walkable ==
    /\ inp.fn = "is_walkable"
    /\ out = NoCall
    /\ out' = [fn |-> "is_walkable", walkable |-> is_walkable(inp.up, Hit(inp.normal1))]
    /\ UNCHANGED <<velocity, floor, up, translation, ticks, tr, inp>>

InitWalkable ==
    /\ velocity = ZERO /\ floor = None /\ up = DirY /\ translation = ZERO
    /\ ticks = 0 /\ tr = NoTick
    /\ inp \in WalkInputs
    /\ out = NoCall

SpecWalkable == InitWalkable /\ [][call_is_walkable]_vars

-----------------------------------------------------------------------------
(* Properties *)

\* The angle between u and n is below 45 degrees: the part of n along u is
\* positive and longer than the part across u (tan < 1).
Below45(u, n) == Dot(u, n) > 0 /\ Dot(u, n) * Dot(u, n) > LenSq(Cross(u, n))

\* d is the unit vector (length DirScale) of the direction of n.
IsDirOf(d, n) == Cross(d, n) = ZERO /\ Dot(d, n) > 0 /\ LenSq(d) = DirScale * DirScale

\* A tick has run, and tr holds its steps.
Ticked == tr.regime # "none"

\* The contacts the last tick was given: by the slide callback and by the probe.
TickContacts ==
    { tr.hits[i] : i \in 1..Len(tr.hits) }
        \cup (IF tr.probed /\ tr.sweep.some THEN {tr.sweep.hit} ELSE {})

\* C1: at the end of every tick, footing is Some(n) only if n is the normal of
\* a contact of that tick (slide callback or fallback probe) whose angle to up
\* is below the walkable angle.
C1_FootingFromWalkableContact ==
    floor.some => \E c \in TickContacts : Below45(up, c.normal1) /\ IsDirOf(floor.val, c.normal1)

\* A tick was given a non-walkable contact after a walkable one and ended
\* with the walkable one as footing.
C1_Witness ==
    /\ floor.some
    /\ Len(tr.hits) = 2
    /\ ~Below45(up, tr.hits[2].normal1)
    /\ IsDirOf(floor.val, tr.hits[1].normal1)

\* C2: the fallback probe runs only in a tick that started with footing Some
\* and whose slide reported no walkable contact; a tick that started airborne
\* runs no probe and keeps the position the slide committed.
C2_ProbeOnlyWhenGrounded ==
    /\ tr.probed =>
        /\ tr.floor0.some
        /\ \A i \in 1..Len(tr.hits) : ~Below45(up, tr.hits[i].normal1)
    /\ (Ticked /\ ~tr.floor0.some) => (~tr.probed /\ translation = tr.pos_slide)

\* A tick started airborne, its slide found no floor, and no probe ran.
C2_Witness ==
    /\ Ticked
    /\ ~tr.floor0.some
    /\ ~tr.slide_floor.some
    /\ tr.hits # <<>>
    /\ ~tr.probed

\* C3: when the probe runs and its hit is walkable, the tick ends with the
\* hit's normal as footing and the position moved from the slide's by exactly
\* the returned distance along -up, which is within the trace distance.
C3_ProbeSnap ==
    (tr.probed /\ tr.sweep.some /\ Below45(up, tr.sweep.hit.normal1)) =>
        /\ floor.some
        /\ IsDirOf(floor.val, tr.sweep.hit.normal1)
        /\ Scale(DirScale, Sub(tr.pos_slide, translation)) = Scale(tr.sweep.movement, up)
        /\ tr.sweep.movement >= 0
        /\ tr.sweep.movement <= TRACE_DISTANCE * Unit

\* The probe hit a walkable slope below and the position was snapped down.
C3_Witness ==
    /\ tr.probed
    /\ tr.sweep.some
    /\ tr.sweep.movement > 0
    /\ floor.some
    /\ translation # tr.pos_slide

\* C4: a jump fired with footing Some adds exactly up * jump_impulse to the
\* velocity and clears footing before the regime is selected and before the
\* probe guard is evaluated: the tick takes the airborne regime and no probe.
C4_JumpStep ==
    (tr.fired /\ tr.floor0.some) =>
        /\ tr.applied
        /\ Scale(DirScale, Sub(tr.v_jump, tr.vel0)) = Scale(EXAMPLE_JUMP_IMPULSE * VelScale, up)
        /\ ~tr.floor_j.some
        /\ tr.regime = "airborne"
        /\ ~tr.probed

\* A jump fired on the ground.
C4_Witness == tr.fired /\ tr.floor0.some /\ tr.applied

\* C5: in a grounded tick, right after the clamp the velocity has no
\* component into the floor, and the clamp changed it along the normal only.
C5_ClampedOutOfFloor ==
    tr.regime = "grounded" =>
        /\ Dot(tr.clamp.n, tr.floor_j.val) >= 0
        /\ Cross(Sub(tr.clamp.n, Scale(tr.clamp.d, tr.v_fric)), tr.floor_j.val) = ZERO

\* A grounded tick on the slope whose velocity pointed into the floor.
C5_Witness ==
    /\ tr.regime = "grounded"
    /\ tr.floor_j.val # DirY
    /\ Dot(tr.v_fric, tr.floor_j.val) < 0
    /\ tr.v_fric[1] # 0

\* The unit direction accelerate was called with.
CallDir == Dir3New(inp.direction)

\* C6: when accelerate returns a velocity, its component along the direction is
\* current_speed + min(target_speed - current_speed, max_acceleration * delta)
\* and does not exceed target_speed.
C6_AccelerateCapped ==
    (out.fn = "accelerate" /\ out.some) =>
        LET nv == out.new_velocity
            along == Dot(nv.n, CallDir.val)
            cs == nv.d * Dot(inp.velocity, CallDir.val)
            ts == nv.d * DirScale * inp.target_speed * VelScale
            cap == (nv.d \div DeltaDen) * DirScale * inp.max_acceleration * VelScale * inp.delta
        IN /\ along <= ts
           /\ along = cs + Min(ts - cs, cap)

\* accelerate returned a velocity clamped exactly to the target speed.
C6_Witness ==
    /\ out.fn = "accelerate"
    /\ out.some
    /\ inp.target_speed > 0
    /\ Dot(out.new_velocity.n, CallDir.val)
         = out.new_velocity.d * DirScale * inp.target_speed * VelScale
    /\ LenSq(inp.direction) # 1

\* C7: accelerate returns none when the speed along the direction is at or
\* over target_speed and when the direction has zero length, the controller
\* then keeps the velocity, and a returned velocity never has a smaller
\* component along the direction.
C7_AccelerateNoneAndNeverSlower ==
    out.fn = "accelerate" =>
        /\ (LenSq(inp.direction) = 0) => (~out.some /\ out.stored = inp.velocity)
        /\ (LenSq(inp.direction) > 0
              /\ Dot(inp.velocity, CallDir.val) >= DirScale * inp.target_speed * VelScale)
            => (~out.some /\ out.stored = inp.velocity)
        /\ out.some =>
             Dot(out.new_velocity.n, CallDir.val)
                >= out.new_velocity.d * Dot(inp.velocity, CallDir.val)

\* accelerate was called with a speed above the target along a real direction.
C7_Witness ==
    /\ out.fn = "accelerate"
    /\ LenSq(inp.direction) > 0
    /\ Dot(inp.velocity, CallDir.val) > DirScale * inp.target_speed * VelScale
    /\ ~out.some

\* C8: is_walkable is true exactly for the normals whose angle to up is
\* strictly below 45 degrees.
C8_WalkableIffBelowAngle ==
    out.fn = "is_walkable" => (out.walkable <=> Below45(inp.up, inp.normal1))

\* A contact at exactly 45 degrees was classified not walkable.
C8_Witness ==
    /\ out.fn = "is_walkable"
    /\ inp.normal1 = <<1, 1, 0>>
    /\ ~out.walkable

\* C9: a velocity returned by apply_friction is the input scaled by a factor in
\* (0, 1] (same direction, no component longer), and it equals the input
\* exactly when friction = 0 or delta = 0.
C9_FrictionNeverSpeedsUp ==
    (out.fn = "apply_friction" /\ out.some) =>
        LET nv == out.new_velocity
            v == inp.velocity
        IN /\ Cross(nv.n, v) = ZERO
           /\ Dot(nv.n, v) > 0
           /\ \A i \in 1..3 : Abs(nv.n[i]) <= nv.d * Abs(v[i])
           /\ (nv.n = Scale(nv.d, v)) <=> (inp.friction = 0 \/ inp.delta = 0)

\* apply_friction slowed a moving character down.
C9_Witness ==
    /\ out.fn = "apply_friction"
    /\ out.some
    /\ inp.friction > 0
    /\ inp.delta > 0
    /\ LenSq(out.new_velocity.n) < out.new_velocity.d * out.new_velocity.d * LenSq(inp.velocity)

\* The last tick started at rest on a flat floor, had no move input and no
\* jump, and the scene was a flat floor directly below: every contact of the
\* slide faces up and the probe, if it ran, met the floor at distance 0.
AtRestOnFlatFloor ==
    /\ Ticked
    /\ tr.floor0 = Some(up)
    /\ tr.vel0 = ZERO
    /\ tr.direction = ZERO
    /\ ~tr.fired
    /\ \A i \in 1..Len(tr.hits) : IsDirOf(up, tr.hits[i].normal1)
    /\ tr.probed => (tr.sweep.some /\ IsDirOf(up, tr.sweep.hit.normal1) /\ tr.sweep.movement = 0)

\* C10: such a tick keeps footing Some(up), applies no gravity (the grounded
\* regime), leaves the velocity at rest at every step and leaves the position
\* where it was, so the next tick starts at rest on the floor again.
C10_RestStaysAtRest ==
    AtRestOnFlatFloor =>
        /\ floor = Some(up)
        /\ tr.regime = "grounded"
        /\ tr.v_fric = ZERO /\ tr.v_reg = ZERO /\ tr.v_acc = ZERO
        /\ velocity = ZERO
        /\ translation = tr.pos0

\* A tick at rest whose slide met nothing and whose probe kept the footing.
C10_Witness == AtRestOnFlatFloor /\ tr.probed /\ floor.some

\* The change of the velocity along up over the last tick, times DirScale.
UpGain == Dot(Sub(velocity, tr.vel0), up)

\* gravity * delta along up, times DirScale, in grid units.
GravityStep == (DirScale * EXAMPLE_GRAVITY * VelScale * tr.delta) \div DeltaDen

\* The last tick started airborne and no sweep reported a contact.
AirborneInTheVoid == Ticked /\ ~tr.floor0.some /\ tr.hits = <<>>

\* C11: an airborne tick with no contact ends with footing None, without a
\* snap, and with the velocity along up lower by exactly gravity * delta.
C11_FreeFall ==
    AirborneInTheVoid =>
        /\ ~floor.some
        /\ translation = tr.pos_slide
        /\ UpGain = -GravityStep

\* The entities whose contacts a query of the character may report.
Solid(e) == e # CHARACTER /\ e \notin Sensors /\ Memberships(e) \cap CharacterFilters # {}

\* C12: every contact reported to the tick, by the slide and by the probe, is
\* with an entity that is not the character, carries no Sensor marker and is
\* on a layer of the character's filters; the footing, the slid velocity and
\* the snap come from these contacts alone.
C12_FilteredContacts ==
    /\ \A c \in TickContacts : Solid(c.entity)
    /\ tr.hits = SelectSeq(tr.scene, LAMBDA h : Solid(h.entity))
    /\ tr.slide_floor.some => \E i \in 1..Len(tr.scene) :
          Solid(tr.scene[i].entity) /\ IsDirOf(tr.slide_floor.val, tr.scene[i].normal1)

\* A grounded tick slid over a sensor only: no footing from the slide, and
\* the probe went past the sensor.
C12_Witness ==
    /\ Ticked
    /\ tr.scene = <<TRIGGER_FLAT>>
    /\ tr.hits = <<>>
    /\ ~tr.slide_floor.some
    /\ tr.probed

\* C13: movement never changes the character's up.
C13_UpNeverChanges == up = DirY

\* Two ticks have run, the last one ending on the slope.
C13_Witness == ticks = MaxTicks /\ floor.some /\ floor.val # DirY /\ up = DirY

\* C14 as stated: a tick that started grounded and whose slide found no
\* walkable contact runs the probe, jump or not.
C14_ProbeEvenWhenJumping ==
    (Ticked /\ tr.floor0.some /\ ~tr.slide_floor.some) => tr.probed

\* C14: a tick that started grounded, applied no jump impulse and whose slide
\* found no walkable contact runs the probe.
C14_ProbeUnlessJumped ==
    (Ticked /\ tr.floor0.some /\ ~tr.applied /\ ~tr.slide_floor.some) => tr.probed

\* A grounded tick without jump whose slide met a non-walkable contact only.
C14_Witness ==
    /\ Ticked /\ tr.floor0.some /\ ~tr.fired
    /\ tr.hits # <<>> /\ ~tr.slide_floor.some
    /\ tr.probed

\* The regime steps as the tick took them: the grounded one applies friction,
\* the clamp, the projected direction and the floor cap, and no gravity; the
\* airborne one applies gravity and the air cap and keeps the direction.
GroundedSteps ==
    /\ tr.regime = "grounded"
    /\ tr.max_acceleration = EXAMPLE_FLOOR_ACCELERATION
    /\ tr.v_reg = ToGrid(tr.clamp)
    /\ Dot(tr.dir_acc, tr.floor_j.val) = 0

AirborneSteps ==
    /\ tr.regime = "airborne"
    /\ tr.max_acceleration = EXAMPLE_AIR_ACCELERATION
    /\ Dot(Sub(tr.v_reg, tr.v_jump), up) = -GravityStep
    /\ tr.dir_acc = tr.direction

\* C15 as stated: the regime of a tick is the one of the footing the previous
\* tick ended with, so the tick of a grounded jump applies no gravity.
C15_RegimeOfPreviousFooting ==
    Ticked => IF tr.floor0.some THEN GroundedSteps ELSE AirborneSteps

\* C15: the regime of a tick is the one of the footing as the jump step left
\* it: grounded iff the previous tick ended with footing Some and no jump
\* impulse was applied; the tick of a grounded jump is airborne, with gravity.
C15_RegimeAfterJump ==
    Ticked => IF tr.floor0.some /\ ~tr.applied THEN GroundedSteps ELSE AirborneSteps

\* A grounded jump: the tick applied gravity on top of the impulse.
C15_Witness ==
    /\ tr.applied
    /\ tr.floor0.some
    /\ AirborneSteps
    /\ Dot(Sub(tr.v_reg, tr.vel0), up)
         = DirScale * EXAMPLE_JUMP_IMPULSE * VelScale - GravityStep

\* C16: the direction derived from the input and the camera has no component
\* along world up.
C16_DirectionHorizontal == Ticked => tr.direction[2] = 0

WalkableIndices == { i \in 1..Len(tr.hits) : Below45(up, tr.hits[i].normal1) }

\* C18: the floor recorded by the slide is the normal of the last walkable
\* contact reported, whatever follows it, and None when none is walkable.
C18_LastWalkableWins ==
    IF WalkableIndices = {} THEN ~tr.slide_floor.some
    ELSE LET last == CHOOSE i \in WalkableIndices : \A k \in WalkableIndices : k <= i
         IN tr.slide_floor.some /\ IsDirOf(tr.slide_floor.val, tr.hits[last].normal1)

\* The slide reported the flat floor, then the slope: the slope was recorded.
C18_Witness ==
    /\ Cardinality(WalkableIndices) = 2
    /\ ~IsDirOf(tr.slide_floor.val, tr.hits[1].normal1)
    /\ IsDirOf(tr.slide_floor.val, tr.hits[2].normal1)

\* C19: a tick that applied the jump impulse runs no probe and no snap, and
\* ends with the footing the slide recorded.
C19_NoProbeWhenJumping ==
    tr.applied => (~tr.probed /\ translation = tr.pos_slide /\ floor = tr.slide_floor)

\* A jump tick whose slide met no floor: it ends airborne, above the ground.
C19_Witness == tr.applied /\ ~tr.slide_floor.some /\ ~floor.some /\ tr.slide_ok

\* C20: a probe that finds no hit, or a first hit that is not walkable, leaves
\* the position the slide committed and ends the tick with footing None; the
\* probe never changes the velocity.
C20_FailedProbeChangesNothing ==
    /\ (tr.probed /\ (~tr.sweep.some \/ ~Below45(up, tr.sweep.hit.normal1))) =>
          (translation = tr.pos_slide /\ ~floor.some)
    /\ Ticked => velocity = tr.v_slide

\* The probe's first hit was the 45 degree slope one unit below.
C20_Witness ==
    /\ tr.probed
    /\ tr.sweep.some
    /\ tr.sweep.movement > 0
    /\ ~Below45(up, tr.sweep.hit.normal1)
    /\ ~floor.some

====
